---- MODULE Spec2Model ----
(***************************************************************************)
(* Bond yield-to-maturity engine of ytm-modules/calculations.js:           *)
(* calculateYTM (bisection on the present-value function),                 *)
(* generateCashFlows, analyzeBondPricing and calculateBondYTMMetrics.      *)
(*                                                                         *)
(* Number representation.  JavaScript numbers are IEEE doubles; the model  *)
(* computes with exact rationals:                                          *)
(*   - money (bondPrice, couponPayment, faceValue, cash flows) is an       *)
(*     integer number of mills (1/1000 of a currency unit);                *)
(*   - a rate (low, high, mid, yieldPerPeriod, bondEquivalentYield) is an  *)
(*     integer number of units of 1/RateScale, RateScale = 2^28; every     *)
(*     bound the bisection produces is a multiple of 2^-k after k halvings,*)
(*     so the halvings are exact in this unit (see MidIsExact) exactly as  *)
(*     they are exact in a double;                                         *)
(*   - years and periods are fractions [n, d];                             *)
(*   - a present value is a fraction of two multi-precision naturals       *)
(*     (sequences of base-2^14 limbs, least significant first), because    *)
(*     (1+rate)^t needs far more than 32 bits.                             *)
(* The comparison presentValue(mid) > bondPrice is therefore decided       *)
(* exactly; on the inputs drawn here the two sides differ by more than     *)
(* 1e-8 of the price at every midpoint, far above a double's rounding      *)
(* error, so the double computation takes the same branches.               *)
(***************************************************************************)
EXTENDS Integers, Sequences, FiniteSets, TLC

\* ------------------------------------------------------------------------
\* Multi-precision naturals: the arithmetic of calculations.js:42
\* ------------------------------------------------------------------------
Base == 2^14
RateScale == Base * Base

\* F(x), F(x, y) with the arguments computed first and handed to F as values:
\* every operator below computes each of its arguments once.
OnValue(x, F(_)) == CHOOSE r \in {F(v) : v \in {x}} : TRUE

OnValues(x, y, F(_, _)) == CHOOSE r \in {F(v, w) : v \in {x}, w \in {y}} : TRUE

At(a, k) == IF k >= 1 /\ k <= Len(a) THEN a[k] ELSE 0

RECURSIVE Strip(_)
Strip(a) ==
  OnValue(a, LAMBDA v :
    IF Len(v) = 0 THEN << >>
    ELSE IF v[Len(v)] = 0 THEN Strip(SubSeq(v, 1, Len(v) - 1)) ELSE v)

\* (A sequence built by [k \in 1..n |-> e] is concatenated with << >> so that
\* it is held as a tuple of values.)
\* One round of carries: each limb keeps its low part and takes the carry of
\* the limb below.  Two rounds bring limbs of up to 2^31 below Base + 9.
Round(a) ==
  OnValue(a, LAMBDA v :
    [k \in 1..(Len(v) + 1) |-> (At(v, k) % Base) + (At(v, k - 1) \div Base)] \o << >>)

\* A natural below 2^31 as limbs.
BigOf(n) == Strip(<<n % Base, (n \div Base) % Base, n \div (Base * Base)>>)

\* a * b for b of at most three limbs.
BigMul(a, b) ==
  OnValues(a, b, LAMBDA x, y :
    Strip(Round(Round([k \in 1..(Len(x) + 3) |->
        At(x, k) * At(y, 1) + At(x, k - 1) * At(y, 2) + At(x, k - 2) * At(y, 3)]
      \o << >>))))

BigAdd(a, b) ==
  OnValues(a, b, LAMBDA x, y :
    Strip(Round([k \in 1..(IF Len(x) > Len(y) THEN Len(x) ELSE Len(y)) |->
        At(x, k) + At(y, k)] \o << >>)))

\* a * Base^k
Shift(a, k) ==
  OnValue(a, LAMBDA x :
    IF Len(x) = 0 THEN << >> ELSE [i \in 1..(Len(x) + k) |-> At(x, i - k)] \o << >>)

RECURSIVE Ripple(_, _, _)
Ripple(v, k, c) ==
  IF k > Len(v) THEN (IF c = 0 THEN << >> ELSE <<c>>)
  ELSE OnValue(v[k] + c, LAMBDA s : <<s % Base>> \o Ripple(v, k + 1, s \div Base))

\* The unique representation with every limb below Base and no leading zero.
Canon(a) == OnValue(a, LAMBDA v : Strip(Ripple(v, 1, 0)))

RECURSIVE CmpFrom(_, _, _)
CmpFrom(a, b, i) ==
  IF i = 0 THEN 0
  ELSE IF a[i] > b[i] THEN 1
  ELSE IF a[i] < b[i] THEN -1
  ELSE CmpFrom(a, b, i - 1)

CmpCanon(a, b) ==
  IF Len(a) > Len(b) THEN 1
  ELSE IF Len(a) < Len(b) THEN -1
  ELSE CmpFrom(a, b, Len(a))

\* -1, 0, 1 as a < b, a = b, a > b.
BigCmp(a, b) == OnValues(Canon(a), Canon(b), LAMBDA x, y : CmpCanon(x, y))

\* acc * a^k
RECURSIVE BigPowAcc(_, _, _)
BigPowAcc(a, k, acc) ==
  IF k = 0 THEN acc
  ELSE OnValue(BigMul(acc, a), LAMBDA nxt : BigPowAcc(a, k - 1, nxt))

BigPow(a, k) == OnValue(a, LAMBDA x : BigPowAcc(x, k, <<1>>))

\* a - b for canonical a >= b.
RECURSIVE SubFrom(_, _, _, _)
SubFrom(a, b, k, borrow) ==
  IF k > Len(a) THEN << >>
  ELSE OnValue(a[k] - At(b, k) - borrow, LAMBDA x :
         <<IF x < 0 THEN x + Base ELSE x>> \o SubFrom(a, b, k + 1, IF x < 0 THEN 1 ELSE 0))

BigSub(a, b) == OnValues(Canon(a), Canon(b), LAMBDA x, y : Strip(SubFrom(x, y, 1, 0)))

\* A fraction of two multi-precision naturals compared with an integer p:
\* the sign of num/den - p.
FracCmpInt(q, p) == OnValue(q, LAMBDA v : BigCmp(v.num, BigMul(v.den, BigOf(p))))

\* ------------------------------------------------------------------------
\* Inputs (BondParameters)
\* ------------------------------------------------------------------------
MaxFrequency == 2

\* Money in mills: prices 95, 97.8, 100, 105; annual coupons 0, 6, 240; face 100.
\* Years 5 and 3/2; 1 to MaxFrequency payments a year.  Every coupon is a
\* multiple of every frequency, so couponPayment / frequency is a whole
\* number of mills.
Prices == {95000, 97800, 100000, 105000}
Coupons == {0, 6000, 240000}
FaceValues == {100000}
YearsSet == {[n |-> 5, d |-> 1], [n |-> 3, d |-> 2]}
Frequencies == 1..MaxFrequency

\* NaN and Infinity as a double holds them, for money and counts; a count of
\* years that is NaN is the fraction 0/0.  A missing field is NaN as well:
\* Number(undefined), -undefined and undefined * frequency are all NaN.
NaN == 0 - 2^30
Infinity == 2^30
NaNYears == [n |-> 0, d |-> 0]

\* a + b in doubles
Plus(a, b) ==
  IF a = NaN \/ b = NaN THEN NaN
  ELSE IF a = Infinity \/ b = Infinity THEN Infinity
  ELSE a + b

\* The self-test par bond with one field the caller should have rejected: NaN
\* or missing price, coupon or years, zero frequency, zero or negative years.
InvalidParameters ==
  LET bond == [bondPrice |-> 100000, couponPayment |-> 6000, years |-> [n |-> 5, d |-> 1],
               faceValue |-> 100000, frequency |-> 2]
  IN {[bond EXCEPT !.bondPrice = NaN],
      [bond EXCEPT !.couponPayment = NaN],
      [bond EXCEPT !.years = NaNYears],
      [bond EXCEPT !.years = [n |-> 0, d |-> 1]],
      [bond EXCEPT !.years = [n |-> -1, d |-> 1]],
      [bond EXCEPT !.frequency = 0],
      [bond EXCEPT !.frequency = 0, !.couponPayment = 0]}

\* Prices around the face value for analyzeBondPricing: face 100 less and plus
\* 0.011, 0.01, 0.009, and the face value itself.  For these the double
\* difference bondPrice - faceValue lies on the same side of 0.01 as the
\* difference in mills lies of PricingTolerance.
ClassifierPrices == {99989, 99990, 99991, 100000, 100009, 100010, 100011}

BondParameters ==
  [bondPrice : Prices, couponPayment : Coupons, years : YearsSet,
   faceValue : FaceValues, frequency : Frequencies]

\* ------------------------------------------------------------------------
\* calculateYTM
\* ------------------------------------------------------------------------
maxIterations == 200
\* tolerance = 0.0000001 = 1 / ToleranceInverse
ToleranceInverse == 10000000

\* const periods = years * frequency
Periods(p) == [n |-> p.years.n * p.frequency, d |-> p.years.d]

\* const couponPaymentPerPeriod = couponPayment / frequency
CouponPaymentPerPeriod(p) ==
  IF p.couponPayment = NaN THEN NaN
  ELSE IF p.frequency = 0 THEN (IF p.couponPayment = 0 THEN NaN ELSE Infinity)
  ELSE p.couponPayment \div p.frequency

\* BuildCashFlows with the face value test one period late (i === periods),
\* so that no cash flow carries the face value.
RECURSIVE BuildCashFlowsLate(_, _, _, _, _)
BuildCashFlowsLate(periods, cpp, faceValue, i, acc) ==
  IF i * periods.d < periods.n
  THEN BuildCashFlowsLate(periods, cpp, faceValue, i + 1,
         Append(acc, IF i * periods.d = periods.n THEN Plus(cpp, faceValue) ELSE cpp))
  ELSE acc

\* for (let i = 0; i < periods; i++) { push(i === periods - 1 ? cpp + faceValue : cpp) }
RECURSIVE BuildCashFlows(_, _, _, _, _)
BuildCashFlows(periods, cpp, faceValue, i, acc) ==
  IF i * periods.d < periods.n
  THEN BuildCashFlows(periods, cpp, faceValue, i + 1,
         Append(acc, IF i * periods.d = periods.n - periods.d
                     THEN Plus(cpp, faceValue) ELSE cpp))
  ELSE acc

SolverCashFlows(p) ==
  BuildCashFlows(Periods(p), CouponPaymentPerPeriod(p), p.faceValue, 0, << >>)

\* cashFlows.reduce((pv, cf, t) => pv + cf / Math.pow(1 + yieldPerPeriod, t + 1), 0)
\* over the common denominator N^Len(cfs): after the entries before index k,
\* acc = sum over t < k of cfs[t] * RateScale^t * N^(k-1-t).
RECURSIVE PVNum(_, _, _, _)
PVNum(cfs, N, k, acc) ==
  IF k > Len(cfs) THEN acc
  ELSE OnValue(BigAdd(BigMul(acc, N), Shift(BigOf(cfs[k]), 2 * k)),
               LAMBDA nxt : PVNum(cfs, N, k + 1, nxt))

\* presentValue(yieldPerPeriod) = sum of cf / (1 + yieldPerPeriod)^(t+1), as the
\* fraction num/den with N = RateScale + rate standing for 1 + yieldPerPeriod.
presentValue(cfs, rate) ==
  OnValues(cfs, BigOf(RateScale + rate), LAMBDA c, N :
    [num |-> PVNum(c, N, 1, << >>), den |-> BigPow(N, Len(c))])

\* LoopGuard with the tolerance test turned round: (high - low) < tolerance.
LoopGuardReversed(lo, hi, its) ==
  /\ its < maxIterations
  /\ BigCmp(BigMul(BigOf(hi - lo), BigOf(ToleranceInverse)), BigOf(RateScale)) = -1

\* LoopGuard with a tolerance of 0.001 in place of 0.0000001.
LoopGuardCoarse(lo, hi, its) ==
  /\ its < maxIterations
  /\ BigCmp(BigMul(BigOf(hi - lo), BigOf(1000)), BigOf(RateScale)) = 1

\* while (iterations < maxIterations && (high - low) > tolerance)
LoopGuard(lo, hi, its) ==
  /\ its < maxIterations
  /\ BigCmp(BigMul(BigOf(hi - lo), BigOf(ToleranceInverse)), BigOf(RateScale)) = 1

\* const mid = (low + high) / 2
Mid(lo, hi) == (lo + hi) \div 2

\* The present value or the price is NaN: every comparison of the two is false.
Unordered(cfs, bondPrice) == bondPrice = NaN \/ \E k \in 1..Len(cfs) : cfs[k] = NaN

\* PvExceedsPrice with the comparison turned round: pv < bondPrice.
PvBelowPrice(cfs, bondPrice, lo, hi) ==
  /\ ~Unordered(cfs, bondPrice)
  /\ FracCmpInt(presentValue(cfs, (lo + hi) \div 2), bondPrice) = -1

\* PvExceedsPrice written as !(pv <= bondPrice), which is true of NaN.
PvNotAtMostPrice(cfs, bondPrice, lo, hi) ==
  \/ Unordered(cfs, bondPrice)
  \/ FracCmpInt(presentValue(cfs, (lo + hi) \div 2), bondPrice) = 1

\* PvExceedsPrice with the present value taken at low instead of mid.
PvAtLowExceedsPrice(cfs, bondPrice, lo, hi) ==
  /\ ~Unordered(cfs, bondPrice)
  /\ FracCmpInt(presentValue(cfs, lo), bondPrice) = 1

\* const pv = presentValue(mid); pv > bondPrice
PvExceedsPrice(cfs, bondPrice, lo, hi) ==
  /\ ~Unordered(cfs, bondPrice)
  /\ FracCmpInt(presentValue(cfs, Mid(lo, hi)), bondPrice) = 1

\* BisectLow taking the midpoint in the wrong branch.
BisectLowSwapped(above, lo, hi) == IF above THEN lo ELSE (lo + hi) \div 2

\* if (pv > bondPrice) { low = mid } else { high = mid }: the new low and high
BisectLow(above, lo, hi) == IF above THEN Mid(lo, hi) ELSE lo

\* BisectHigh without the test: high is lowered to mid in either branch.
BisectHighAlways(above, lo, hi) == Mid(lo, hi)

BisectHigh(above, lo, hi) == IF above THEN hi ELSE Mid(lo, hi)

\* YieldPerPeriod without the halving: low + high.
YieldPerPeriodSum(lo, hi) == lo + hi

\* const yieldPerPeriod = (low + high) / 2
YieldPerPeriod(lo, hi) == (lo + hi) \div 2

\* BondEquivalentYield without the annualization.
BondEquivalentYieldPerPeriod(y, frequency) == y

\* const bondEquivalentYield = yieldPerPeriod * frequency, in units of 1/RateScale
BondEquivalentYield(y, frequency) == y * frequency

\* EffectiveAnnualYield by simple annualization: yieldPerPeriod * frequency.
EffectiveAnnualYieldSimple(y, frequency) ==
  BigMul(BigPow(BigOf(RateScale), frequency - 1), BigOf(y * frequency))

\* const effectiveAnnualYield = Math.pow(1 + yieldPerPeriod, frequency) - 1, as
\* the numerator of a fraction over RateScale^frequency: (RateScale + y)^f - RateScale^f
EffectiveAnnualYield(y, frequency) ==
  BigSub(BigPow(BigOf(RateScale + y), frequency), BigPow(BigOf(RateScale), frequency))

\* return { yieldPerPeriod, bondEquivalentYield, effectiveAnnualYield, periods,
\*          couponPayment: couponPaymentPerPeriod, cashFlows, iterations }
YtmData(p, cfs, lo, hi, its) ==
  [yieldPerPeriod |-> YieldPerPeriod(lo, hi),
   bondEquivalentYield |-> BondEquivalentYield(YieldPerPeriod(lo, hi), p.frequency),
   effectiveAnnualYield |-> EffectiveAnnualYield(YieldPerPeriod(lo, hi), p.frequency),
   periods |-> Periods(p),
   couponPayment |-> CouponPaymentPerPeriod(p),
   cashFlows |-> cfs,
   iterations |-> its]

\* One pass of the loop body on the bracket b = [low, high, iterations].
BisectPass(b, above) ==
  [low |-> BisectLow(above, b.low, b.high),
   high |-> BisectHigh(above, b.low, b.high),
   iterations |-> b.iterations + 1]

\* The whole loop from a given bracket: the bracket and count it exits with.
RECURSIVE Bisect(_, _, _)
Bisect(cfs, bondPrice, b) ==
  IF LoopGuard(b.low, b.high, b.iterations)
  THEN OnValue(BisectPass(b, PvExceedsPrice(cfs, bondPrice, b.low, b.high)),
               LAMBDA nb : Bisect(cfs, bondPrice, nb))
  ELSE b

\* calculateYTM as a function of its argument alone (low = 0, high = 1.0,
\* iterations = 0 at entry).
YtmDataAtExit(p, cfs, b) == YtmData(p, cfs, b.low, b.high, b.iterations)

SolveWith(p, cfs) ==
  OnValue(Bisect(cfs, p.bondPrice, [low |-> 0, high |-> RateScale, iterations |-> 0]),
          LAMBDA b : YtmDataAtExit(p, cfs, b))

SolveYTM(p) == OnValue(SolverCashFlows(p), LAMBDA cfs : SolveWith(p, cfs))

\* ------------------------------------------------------------------------
\* generateCashFlows
\* ------------------------------------------------------------------------
\* ScheduleLoop with the loop test t < periods.
RECURSIVE ScheduleLoopStrict(_, _, _, _, _, _)
ScheduleLoopStrict(periods, frequency, faceValue, couponPayment, t, acc) ==
  IF periods.d > 0 /\ t * periods.d < periods.n
  THEN ScheduleLoopStrict(periods, frequency, faceValue, couponPayment, t + 1,
         Append(acc, [period |-> t,
                      timeYears |-> [n |-> t, d |-> frequency],
                      couponPayment |-> couponPayment,
                      principalPayment |-> 0,
                      totalCashFlow |-> couponPayment]))
  ELSE acc

\* for (let t = 1; t <= periods; t++) { push({period: t, timeYears: t / frequency, ...}) }
RECURSIVE ScheduleLoop(_, _, _, _, _, _)
ScheduleLoop(periods, frequency, faceValue, couponPayment, t, acc) ==
  IF periods.d > 0 /\ t * periods.d <= periods.n
  THEN LET principal == IF t * periods.d = periods.n THEN faceValue ELSE 0
       IN ScheduleLoop(periods, frequency, faceValue, couponPayment, t + 1,
            Append(acc, [period |-> t,
                         timeYears |-> [n |-> t, d |-> frequency],
                         couponPayment |-> couponPayment,
                         principalPayment |-> principal,
                         totalCashFlow |-> Plus(couponPayment, principal)]))
  ELSE acc

\* -x in doubles
Negated(x) == IF x = NaN THEN NaN ELSE 0 - x

\* a: { bondPrice, faceValue, frequency, years, couponPayment, ytmPerPeriod }
generateCashFlows(a) ==
  ScheduleLoop([n |-> a.years.n * a.frequency, d |-> a.years.d],
               a.frequency, a.faceValue, a.couponPayment, 1,
               <<[period |-> 0,
                  timeYears |-> [n |-> 0, d |-> 1],
                  couponPayment |-> 0,
                  principalPayment |-> Negated(a.bondPrice),
                  totalCashFlow |-> Negated(a.bondPrice)]>>)

\* ------------------------------------------------------------------------
\* analyzeBondPricing
\* ------------------------------------------------------------------------
\* tolerance = 0.01, in mills
PricingTolerance == 10

Abs(x) == IF x < 0 THEN 0 - x ELSE x

\* analyzeBondPricing with the tolerance test inclusive: Math.abs(difference) <= tolerance.
analyzeBondPricingInclusive(bondPrice, faceValue) ==
  LET difference == Plus(bondPrice, Negated(faceValue))
  IN IF difference # NaN /\ Abs(difference) <= PricingTolerance
     THEN [type |-> "par", description |-> "Trading at par",
           detail |-> "Price equals face value"]
     ELSE IF difference # NaN /\ difference > 0
     THEN [type |-> "premium", description |-> "Trading at premium",
           detail |-> "Price > Par"]
     ELSE [type |-> "discount", description |-> "Trading at discount",
           detail |-> "Price < Par"]

analyzeBondPricing(bondPrice, faceValue) ==
  LET difference == Plus(bondPrice, Negated(faceValue))
  IN IF difference # NaN /\ Abs(difference) < PricingTolerance
     THEN [type |-> "par", description |-> "Trading at par",
           detail |-> "Price equals face value"]
     ELSE IF difference # NaN /\ difference > 0
     THEN [type |-> "premium", description |-> "Trading at premium",
           detail |-> "Price > Par"]
     ELSE [type |-> "discount", description |-> "Trading at discount",
           detail |-> "Price < Par"]

\* ------------------------------------------------------------------------
\* calculateBondYTMMetrics
\* ------------------------------------------------------------------------
\* Metrics with the classifier's arguments in the wrong order.
MetricsSwappedPricing(p, ytm) ==
  [yieldPerPeriod |-> ytm.yieldPerPeriod,
   bondEquivalentYield |-> ytm.bondEquivalentYield,
   effectiveAnnualYield |-> ytm.effectiveAnnualYield,
   periods |-> ytm.periods,
   couponPayment |-> ytm.couponPayment,
   iterations |-> ytm.iterations,
   cashFlows |-> generateCashFlows(
                   [bondPrice |-> p.bondPrice, faceValue |-> p.faceValue,
                    frequency |-> p.frequency, years |-> p.years,
                    couponPayment |-> ytm.couponPayment,
                    ytmPerPeriod |-> ytm.yieldPerPeriod]),
   pricingAnalysis |-> analyzeBondPricing(p.faceValue, p.bondPrice)]

\* Metrics handing the annual couponPayment of params to generateCashFlows.
MetricsAnnualCoupon(p, ytm) ==
  [yieldPerPeriod |-> ytm.yieldPerPeriod,
   bondEquivalentYield |-> ytm.bondEquivalentYield,
   effectiveAnnualYield |-> ytm.effectiveAnnualYield,
   periods |-> ytm.periods,
   couponPayment |-> ytm.couponPayment,
   iterations |-> ytm.iterations,
   cashFlows |-> generateCashFlows(
                   [bondPrice |-> p.bondPrice, faceValue |-> p.faceValue,
                    frequency |-> p.frequency, years |-> p.years,
                    couponPayment |-> p.couponPayment,
                    ytmPerPeriod |-> ytm.yieldPerPeriod]),
   pricingAnalysis |-> analyzeBondPricing(p.bondPrice, p.faceValue)]

\* return { ...ytmData, cashFlows, pricingAnalysis }
Metrics(p, ytm) ==
  [yieldPerPeriod |-> ytm.yieldPerPeriod,
   bondEquivalentYield |-> ytm.bondEquivalentYield,
   effectiveAnnualYield |-> ytm.effectiveAnnualYield,
   periods |-> ytm.periods,
   couponPayment |-> ytm.couponPayment,
   iterations |-> ytm.iterations,
   cashFlows |-> generateCashFlows(
                   [bondPrice |-> p.bondPrice, faceValue |-> p.faceValue,
                    frequency |-> p.frequency, years |-> p.years,
                    couponPayment |-> ytm.couponPayment,
                    ytmPerPeriod |-> ytm.yieldPerPeriod]),
   pricingAnalysis |-> analyzeBondPricing(p.bondPrice, p.faceValue)]

\* ------------------------------------------------------------------------
\* State: one invocation of calculateBondYTMMetrics at a time (the engine is
\* synchronous and single-threaded), observed at the head of the bisection
\* loop.  low, high, iterations and cashFlows are calculateYTM's locals;
\* ytmData is what calculateYTM returned and result what the aggregator
\* returned, both meaningful when pc = "returned".  called records that the
\* invocation under way follows an earlier one that has returned.
\* ------------------------------------------------------------------------
VARIABLES params, pc, cashFlows, low, high, iterations, ytmData, result, called

\* A second activation of calculateYTM, with locals of its own, for the
\* specification that interleaves two invocations.
VARIABLE other

\* The page around the engine.  state is the shared state object of the state
\* module and calls the subscriber calls made by the handler that ran last;
\* rendered is what the results, equation and table modules last drew; chart
\* is the chart module (its chart instance, its focus index and the listeners
\* it has registered on the canvas); dom is what the handlers read from and
\* write to the document and the window.  resizeTimeout is the timer id the
\* resize listener keeps and timers the timers the window has pending, each
\* with its id and the milliseconds until it is due; sinceResize is the time
\* since the last resize event (-1 before the first) and runs the number of
\* times the resize timer's callback ran since then.
VARIABLES state, calls, rendered, chart, dom, resizeTimeout, timers, sinceResize, runs

engine == <<params, pc, cashFlows, low, high, iterations, ytmData, result, called>>

timing == <<resizeTimeout, timers, sinceResize, runs>>

page == <<state, calls, rendered, chart, dom, resizeTimeout, timers, sinceResize, runs>>

vars == <<params, pc, cashFlows, low, high, iterations, ytmData, result, called, other,
          state, calls, rendered, chart, dom, resizeTimeout, timers, sinceResize, runs>>

NoParams ==
  [bondPrice |-> 0, couponPayment |-> 0, years |-> [n |-> 0, d |-> 1],
   faceValue |-> 0, frequency |-> 0]

NoYtmData ==
  [yieldPerPeriod |-> 0, bondEquivalentYield |-> 0, effectiveAnnualYield |-> << >>,
   periods |-> [n |-> 0, d |-> 1], couponPayment |-> 0, cashFlows |-> << >>,
   iterations |-> 0]

NoResult ==
  [yieldPerPeriod |-> 0, bondEquivalentYield |-> 0, effectiveAnnualYield |-> << >>,
   periods |-> [n |-> 0, d |-> 1], couponPayment |-> 0, iterations |-> 0,
   cashFlows |-> << >>, pricingAnalysis |-> [type |-> "", description |-> "", detail |-> ""]]

NoOther ==
  [pc |-> "idle", params |-> NoParams, cashFlows |-> << >>, low |-> 0, high |-> 0,
   iterations |-> 0, ytmData |-> NoYtmData]

\* export const state = { ... }: the state object as the module creates it.
InitialState ==
  [bondPrice |-> 97800, couponPayment |-> 11000, years |-> [n |-> 5, d |-> 1],
   faceValue |-> 100000, frequency |-> 2,
   viewMode |-> "chart",
   errors |-> {},
   ytmCalculations |-> NoResult,
   listeners |-> << >>]

\* Nothing drawn yet.
NoDisplay ==
  [calculations |-> NoResult,
   params |-> [bondPrice |-> 0, couponPayment |-> 0, years |-> [n |-> 0, d |-> 1],
               faceValue |-> 0]]

NothingRendered ==
  [results |-> NoDisplay, equation |-> NoDisplay, table |-> << >>, tableYield |-> 0]

\* let chartInstance = null; let currentFocusIndex = 0; let isKeyboardMode =
\* false, and a canvas without listeners.  renders counts the calls of
\* renderChart and names the latest; each listener is the number of the
\* render whose cash flows it closes over, a keydown listener together with
\* those cash flows.
NoChart ==
  [renders |-> 0, chartInstance |-> << >>, currentFocusIndex |-> 0,
   isKeyboardMode |-> FALSE,
   keydown |-> << >>, focus |-> << >>, blur |-> << >>, mousemove |-> << >>]

\* The document before init() ran, in a window innerWidth wide.
DomOf(innerWidth) ==
  [innerWidth |-> innerWidth, forceTable |-> FALSE, chartBtnDisabled |-> FALSE,
   activeElement |-> "body", ready |-> FALSE]

PageInit(innerWidth) ==
  /\ state = InitialState
  /\ calls = << >>
  /\ rendered = NothingRendered
  /\ chart = NoChart
  /\ dom = DomOf(innerWidth)
  /\ resizeTimeout = 0
  /\ timers = {}
  /\ sinceResize = 0 - 1
  /\ runs = 0

EngineInit ==
  /\ other = NoOther
  /\ params = NoParams
  /\ pc = "idle"
  /\ cashFlows = << >>
  /\ low = 0
  /\ high = 0
  /\ iterations = 0
  /\ ytmData = NoYtmData
  /\ result = NoResult
  /\ called = FALSE

Init == EngineInit /\ PageInit(1024)

\* Call with iterations kept from the invocation before (a counter that is not
\* a local of calculateYTM).
CallStale(p) ==
  /\ pc \in {"idle", "returned", "classified", "threw"}
  /\ params' = p
  /\ cashFlows' = SolverCashFlows(p)
  /\ low' = 0
  /\ high' = RateScale
  /\ iterations' = iterations
  /\ ytmData' = NoYtmData
  /\ result' = NoResult
  /\ pc' = "bisect"
  /\ called' = (pc = "returned")
  /\ UNCHANGED <<other, page>>

\* Call with a validation that throws on a falsy couponPayment.
CallRejectFalsy(p) ==
  /\ pc \in {"idle", "returned", "classified", "threw"}
  /\ params' = p
  /\ cashFlows' = IF p.couponPayment = 0 THEN << >> ELSE SolverCashFlows(p)
  /\ low' = 0
  /\ high' = IF p.couponPayment = 0 THEN 0 ELSE RateScale
  /\ iterations' = 0
  /\ ytmData' = NoYtmData
  /\ result' = NoResult
  /\ pc' = IF p.couponPayment = 0 THEN "threw" ELSE "bisect"
  /\ called' = (pc = "returned")
  /\ UNCHANGED <<other, page>>

\* calculateBondYTMMetrics(p) enters calculateYTM: lines 19-51.
Call(p) ==
  /\ pc \in {"idle", "returned", "classified", "threw"}
  /\ params' = p
  /\ cashFlows' = SolverCashFlows(p)
  /\ low' = 0
  /\ high' = RateScale
  /\ iterations' = 0
  /\ ytmData' = NoYtmData
  /\ result' = NoResult
  /\ pc' = "bisect"
  /\ called' = (pc = "returned")
  /\ UNCHANGED <<other, page>>

\* One pass of the while loop: lines 53-66.
Iterate ==
  /\ pc = "bisect"
  /\ LoopGuard(low, high, iterations)
  /\ \E above \in {PvExceedsPrice(cashFlows, params.bondPrice, low, high)} :
        /\ low' = BisectLow(above, low, high)
        /\ high' = BisectHigh(above, low, high)
  /\ iterations' = iterations + 1
  /\ UNCHANGED <<params, pc, cashFlows, ytmData, result, called, other, page>>

\* The loop exits; calculateYTM returns (lines 68-82) and the aggregator
\* builds the schedule, classifies the price and returns (lines 171-187).
Return ==
  /\ pc = "bisect"
  /\ ~LoopGuard(low, high, iterations)
  /\ \E ytm \in {YtmData(params, cashFlows, low, high, iterations)} :
        /\ ytmData' = ytm
        /\ result' = Metrics(params, ytm)
  /\ pc' = "returned"
  /\ UNCHANGED <<params, cashFlows, low, high, iterations, called, other, page>>

\* A direct call of the exported analyzeBondPricing(bondPrice, faceValue): it
\* returns at once; params keeps the two arguments and result.pricingAnalysis
\* what it returned.
Classify(bondPrice, faceValue) ==
  /\ pc \in {"idle", "returned", "classified", "threw"}
  /\ params' = [NoParams EXCEPT !.bondPrice = bondPrice, !.faceValue = faceValue]
  /\ result' = [NoResult EXCEPT !.pricingAnalysis = analyzeBondPricing(bondPrice, faceValue)]
  /\ pc' = "classified"
  /\ cashFlows' = << >>
  /\ low' = 0
  /\ high' = 0
  /\ iterations' = 0
  /\ ytmData' = NoYtmData
  /\ called' = FALSE
  /\ UNCHANGED <<other, page>>

\* calculateBondYTMMetrics() without an argument object: the destructuring of
\* params (line 159) throws a TypeError and nothing is returned.
CallMissing ==
  /\ pc \in {"idle", "returned", "classified", "threw"}
  /\ params' = NoParams
  /\ result' = NoResult
  /\ pc' = "threw"
  /\ cashFlows' = << >>
  /\ low' = 0
  /\ high' = 0
  /\ iterations' = 0
  /\ ytmData' = NoYtmData
  /\ called' = FALSE
  /\ UNCHANGED <<other, page>>

Next ==
  \/ \E p \in BondParameters : Call(p)
  \/ CallMissing
  \/ \E bondPrice \in ClassifierPrices, faceValue \in FaceValues : Classify(bondPrice, faceValue)
  \/ Iterate
  \/ Return

Spec == Init /\ [][Next]_vars

\* The second activation enters calculateYTM(p): lines 19-51.
OtherCall(p) ==
  /\ other.pc = "idle"
  /\ other' = [pc |-> "bisect", params |-> p, cashFlows |-> SolverCashFlows(p),
               low |-> 0, high |-> RateScale, iterations |-> 0, ytmData |-> NoYtmData]
  /\ UNCHANGED <<engine, page>>

\* OtherIterate counting in the first activation's iterations as well: the
\* counter as a variable of the module, shared by all activations.
OtherIterateShared ==
  /\ other.pc = "bisect"
  /\ LoopGuard(other.low, other.high, other.iterations)
  /\ \E above \in {PvExceedsPrice(other.cashFlows, other.params.bondPrice, other.low, other.high)} :
        other' = [other EXCEPT !.low = BisectLow(above, other.low, other.high),
                               !.high = BisectHigh(above, other.low, other.high),
                               !.iterations = other.iterations + 1]
  /\ iterations' = iterations + 1
  /\ UNCHANGED <<params, pc, cashFlows, low, high, ytmData, result, called, page>>

\* One pass of the second activation's loop: lines 53-66.
OtherIterate ==
  /\ other.pc = "bisect"
  /\ LoopGuard(other.low, other.high, other.iterations)
  /\ \E above \in {PvExceedsPrice(other.cashFlows, other.params.bondPrice, other.low, other.high)} :
        other' = [other EXCEPT !.low = BisectLow(above, other.low, other.high),
                               !.high = BisectHigh(above, other.low, other.high),
                               !.iterations = other.iterations + 1]
  /\ UNCHANGED <<engine, page>>

\* The second activation returns: lines 68-82.
OtherReturn ==
  /\ other.pc = "bisect"
  /\ ~LoopGuard(other.low, other.high, other.iterations)
  /\ other' = [other EXCEPT !.pc = "returned",
                            !.ytmData = YtmData(other.params, other.cashFlows, other.low,
                                                other.high, other.iterations)]
  /\ UNCHANGED <<engine, page>>

\* Two invocations at once, their steps interleaved in every order (a
\* scheduler stricter than JavaScript's run-to-completion is one of them).
InterleavedParameters ==
  {p \in BondParameters : /\ p.bondPrice \in {95000, 105000}
                          /\ p.couponPayment = 6000
                          /\ p.years = [n |-> 3, d |-> 2]
                          /\ p.frequency = 2}

NextInterleaved ==
  \/ \E p \in InterleavedParameters : Call(p)
  \/ Iterate
  \/ Return
  \/ \E p \in InterleavedParameters : OtherCall(p)
  \/ OtherIterate
  \/ OtherReturn

InterleavedSpec == Init /\ [][NextInterleaved]_vars

\* The engine called with argument objects the caller should have rejected.
NextUnvalidated ==
  \/ \E p \in InvalidParameters : Call(p)
  \/ Iterate
  \/ Return

UnvalidatedSpec == Init /\ [][NextUnvalidated]_vars

\* The loop runs to completion: the engine is synchronous, nothing preempts it.
LiveSpec == Spec /\ WF_vars(Iterate) /\ WF_vars(Return)

\* The halvings are exact in units of 1/RateScale.
MidIsExact == pc \in {"bisect", "returned"} => (low + high) % 2 = 0

\* couponPayment / frequency is exact in mills.
CouponDivides == pc \in {"bisect", "returned"} => params.couponPayment % params.frequency = 0

\* ========================================================================
\* The page: the state module, the renderers and the handlers of
\* bond-ytm-calculator.js.  Classes, ARIA attributes, styles, announcements
\* and console output are left out; what is kept is the shared state, what
\* each display was last drawn from, and what the handlers read back.
\* ========================================================================

\* calculateBondYTMMetrics(params) run to its return.
calculateBondYTMMetrics(p) == OnValue(SolveYTM(p), LAMBDA ytm : Metrics(p, ytm))

\* Values the three input fields are given: two that pass validation and one
\* that does not (an empty price field parses to NaN, a negative coupon, zero
\* years).
InputPrices == {97800, 105000, NaN}

InputCoupons == {11000, 6000, 0 - 1000}

InputYears == {[n |-> 5, d |-> 1], [n |-> 1, d |-> 1], [n |-> 0, d |-> 1]}

\* The argument object updateCalculations builds from the state.
ParamsOf(st) ==
  [bondPrice |-> st.bondPrice, couponPayment |-> st.couponPayment, years |-> st.years,
   faceValue |-> st.faceValue, frequency |-> st.frequency]

\* The engine's results for the argument objects the page can pass, computed
\* once.
EngineResults ==
  {<<p, calculateBondYTMMetrics(p)>> :
     p \in [bondPrice : InputPrices \ {NaN}, couponPayment : {c \in InputCoupons : c >= 0},
            years : {y \in InputYears : y.n > 0},
            faceValue : {InitialState.faceValue},
            frequency : {InitialState.frequency}]}

EngineResult(p) == (CHOOSE e \in EngineResults : e[1] = p)[2]

\* Object.assign(state, updates)
Assign(st, updates) == updates @@ st

\* renderChart(cashFlows, showLabels, ytmBEY) with setupKeyboardNavigation:
\* the chart instance is replaced, the focus index reset, the keydown
\* listener recorded on the canvas removed and a keydown, a focus, a blur
\* and a mousemove listener added.
renderChart(ch, cfs) ==
  [ch EXCEPT !.renders = ch.renders + 1,
             !.chartInstance = cfs,
             !.currentFocusIndex = 0,
             !.keydown = Append(SelectSeq(ch.keydown, LAMBDA l : l.render # ch.renders),
                                [render |-> ch.renders + 1, cashFlows |-> cfs]),
             !.focus = Append(ch.focus, ch.renders + 1),
             !.blur = Append(ch.blur, ch.renders + 1),
             !.mousemove = Append(ch.mousemove, ch.renders + 1)]

\* What renderResults and renderDynamicEquation are handed.
DisplayOf(newState) ==
  [calculations |-> newState.ytmCalculations,
   params |-> [bondPrice |-> newState.bondPrice, couponPayment |-> newState.couponPayment,
               years |-> newState.years, faceValue |-> newState.faceValue]]

\* handleStateChange drawing only the display that is visible: the table is
\* left alone while the chart is shown.
handleStateChangeVisible(view, newState) ==
  IF newState.ytmCalculations = NoResult
  THEN view
  ELSE IF newState.viewMode = "chart"
  THEN [view EXCEPT !.chart = renderChart(view.chart, newState.ytmCalculations.cashFlows)]
  ELSE [view EXCEPT !.rendered = [results |-> DisplayOf(newState),
                                  equation |-> DisplayOf(newState),
                                  table |-> newState.ytmCalculations.cashFlows,
                                  tableYield |-> newState.ytmCalculations.bondEquivalentYield]]

\* handleStateChange(newState) on the displays view = [rendered, chart].
handleStateChange(view, newState) ==
  IF newState.ytmCalculations = NoResult
  THEN view
  ELSE [rendered |-> [results |-> DisplayOf(newState),
                      equation |-> DisplayOf(newState),
                      table |-> newState.ytmCalculations.cashFlows,
                      tableYield |-> newState.ytmCalculations.bondEquivalentYield],
        chart |-> IF newState.viewMode = "chart"
                  THEN renderChart(view.chart, newState.ytmCalculations.cashFlows)
                  ELSE view.chart]

\* fn(state) for a subscriber fn: handleStateChange draws, any other
\* subscriber only observes.
CallSubscriber(fn, view, st) ==
  IF fn = "handleStateChange" THEN handleStateChange(view, st) ELSE view

\* state.listeners.forEach(fn => fn(state)) from the i-th listener on.
RECURSIVE NotifyFrom(_, _, _)
NotifyFrom(i, st, view) ==
  IF i > Len(st.listeners)
  THEN view
  ELSE NotifyFrom(i + 1, st, CallSubscriber(st.listeners[i], view, st))

\* The calls forEach makes, in order, each with the state it is handed.
CallsOf(st) == [i \in 1..Len(st.listeners) |-> [fn |-> st.listeners[i], state |-> st]] \o << >>

\* setState calling the subscribers before it merges the updates.
setStateNotifyFirst(w, updates) ==
  OnValue(NotifyFrom(1, w.state, [rendered |-> w.rendered, chart |-> w.chart]),
          LAMBDA view : [w EXCEPT !.state = Assign(w.state, updates),
                                  !.calls = w.calls \o CallsOf(w.state),
                                  !.rendered = view.rendered,
                                  !.chart = view.chart])

\* setState(updates) on the world w = [state, calls, rendered, chart, dom].
setState(w, updates) ==
  OnValue(Assign(w.state, updates),
          LAMBDA st : OnValue(NotifyFrom(1, st, [rendered |-> w.rendered, chart |-> w.chart]),
                              LAMBDA view : [w EXCEPT !.state = st,
                                                      !.calls = w.calls \o CallsOf(st),
                                                      !.rendered = view.rendered,
                                                      !.chart = view.chart]))

\* subscribe(fn)
subscribe(st, fn) == [st EXCEPT !.listeners = Append(st.listeners, fn)]

\* The world a handler starts from: no subscriber called yet.
World == [state |-> state, calls |-> << >>, rendered |-> rendered, chart |-> chart, dom |-> dom]

\* The handler leaves the world as w.
Becomes(w) ==
  /\ state' = w.state
  /\ calls' = w.calls
  /\ rendered' = w.rendered
  /\ chart' = w.chart
  /\ dom' = w.dom

\* ------------------------------------------------------------------------
\* The state module on its own: any caller setting keys, any subscribers.
\* ------------------------------------------------------------------------
MaxListeners == 3

MaxRenders == 3

Subscribers == {"handleStateChange", "observer"}

\* setState(updates) called with the object updates.
SetState(updates) ==
  /\ Becomes(setState(World, updates))
  /\ chart'.renders <= MaxRenders
  /\ UNCHANGED <<engine, other, timing>>

\* subscribe(fn)
Subscribe(fn) ==
  /\ Len(state.listeners) < MaxListeners
  /\ state' = subscribe(state, fn)
  /\ calls' = << >>
  /\ UNCHANGED <<engine, other, rendered, chart, dom, timing>>

\* The update objects the page's handlers pass: a view mode, a field with the
\* errors, the calculations.
StateUpdates ==
  {[viewMode |-> view] : view \in {"chart", "table"}}
    \cup {[bondPrice |-> bondPrice, errors |-> IF bondPrice = NaN THEN {"bondPrice"} ELSE {}] :
            bondPrice \in InputPrices}
    \cup {[ytmCalculations |-> calculations] :
            calculations \in {NoResult, EngineResult(ParamsOf(InitialState))}}

NextState ==
  \/ \E updates \in StateUpdates : SetState(updates)
  \/ \E fn \in Subscribers : Subscribe(fn)

StateSpec == Init /\ [][NextState]_vars

\* ------------------------------------------------------------------------
\* The handlers of bond-ytm-calculator.js.
\* ------------------------------------------------------------------------

\* validateField(field, value) of validation.js says whether the field is in
\* error: a value that is not a number, negative or zero is rejected, a zero
\* coupon is accepted.
validateField(field, value) ==
  IF field = "years" THEN value.d = 0 \/ value.n <= 0
  ELSE IF field = "couponPayment" THEN value = NaN \/ value < 0
  ELSE value = NaN \/ value <= 0

\* hasErrors(errors) of validation.js: the errors object has a key.
hasErrors(errors) == errors # {}

\* The engine throws only on a missing argument object (calculations.js:159),
\* and updateCalculations always passes one.
EngineThrows(p) == FALSE

\* The call of calculateBondYTMMetrics entered in the calls of the handler.
Invoked(w) ==
  [w EXCEPT !.calls = Append(w.calls, [fn |-> "calculateBondYTMMetrics", state |-> w.state])]

\* updateCalculations leaving the calculations as they are when the state has
\* errors.
updateCalculationsKeep(w) ==
  IF hasErrors(w.state.errors)
  THEN w
  ELSE setState(Invoked(w), [ytmCalculations |-> EngineResult(ParamsOf(w.state))])

\* updateCalculations()
updateCalculations(w) ==
  IF hasErrors(w.state.errors)
  THEN setState(w, [ytmCalculations |-> NoResult])
  ELSE IF EngineThrows(ParamsOf(w.state))
  THEN setState(Invoked(w), [ytmCalculations |-> NoResult])
  ELSE setState(Invoked(w), [ytmCalculations |-> EngineResult(ParamsOf(w.state))])

\* switchView(view) and switchViewWithoutFocus(view)
switchView(w, view) == setState(w, [viewMode |-> view])

NarrowWidth == 480

\* handleResponsiveView()
handleResponsiveView(w) ==
  IF w.dom.innerWidth <= NarrowWidth
  THEN [(IF w.state.viewMode = "chart"
         THEN switchView([w EXCEPT !.dom.forceTable = TRUE], "table")
         ELSE [w EXCEPT !.dom.forceTable = TRUE])
          EXCEPT !.dom.chartBtnDisabled = TRUE]
  ELSE [w EXCEPT !.dom.forceTable = FALSE, !.dom.chartBtnDisabled = FALSE]

\* The handler ends with the world w; no step draws more charts than
\* MaxRenders in all.
Handled(w) ==
  /\ Becomes(w)
  /\ chart'.renders <= MaxRenders
  /\ UNCHANGED <<engine, other>>

\* init(): the listeners are set up (setupResizeListener checks the width
\* once), handleStateChange subscribes and the first calculation is made.
\* runSelfTests calls the engine three times and logs what it finds.
InitApp ==
  /\ ~dom.ready
  /\ Handled(updateCalculations(
       OnValue(handleResponsiveView([World EXCEPT !.dom.ready = TRUE]),
               LAMBDA w : [w EXCEPT !.state = subscribe(w.state, "handleStateChange")])))
  /\ UNCHANGED timing

\* The body of the debounced input handler, errors being the new errors.
InputHandler(w, field, value, errors) ==
  IF ~hasErrors(errors)
  THEN updateCalculations(setState(w, (field :> value) @@ [errors |-> errors]))
  ELSE setState(w, (field :> value) @@ [errors |-> errors])

\* The debounced handler of an input field runs, the field holding value.
InputEvent(field, value) ==
  /\ dom.ready
  /\ Handled(InputHandler(World, field, value,
                          IF validateField(field, value)
                          THEN state.errors \cup {field}
                          ELSE state.errors \ {field}))
  /\ UNCHANGED timing

\* updateCalculations() called in the state as it is.
UpdateCalculations ==
  /\ dom.ready
  /\ Handled(updateCalculations(World))
  /\ UNCHANGED timing

\* The click handler of the chart button without the check for a narrow
\* screen.
ChartClickHandlerOpen(w) == switchView(w, "chart")

\* The click handler of the chart button (capture phase).
ChartClickHandler(w) ==
  IF w.dom.forceTable \/ w.dom.chartBtnDisabled
  THEN switchView(w, "table")
  ELSE switchView(w, "chart")

\* A click on the chart button reaches its handler.
ChartClick ==
  /\ dom.ready
  /\ Handled(ChartClickHandler(World))
  /\ UNCHANGED timing

\* A click on the table button, or on the skip link to the table.
TableClick ==
  /\ dom.ready
  /\ Handled(switchView(World, "table"))
  /\ UNCHANGED timing

\* handleArrowKeys(e) on the toggle button that has the focus.
handleArrowKeys(w, key) ==
  IF key = "ArrowRight" /\ w.dom.activeElement = "chartBtn"
  THEN switchView([w EXCEPT !.dom.activeElement = "tableBtn"], "table")
  ELSE IF /\ key = "ArrowLeft"
          /\ w.dom.activeElement = "tableBtn"
          /\ ~w.dom.forceTable
          /\ ~w.dom.chartBtnDisabled
  THEN switchView([w EXCEPT !.dom.activeElement = "chartBtn"], "chart")
  ELSE w

ToggleKeys == {"ArrowLeft", "ArrowRight", "Tab"}

\* A key goes down on a toggle button; a disabled button receives none.
ToggleKeyDown(key) ==
  /\ dom.ready
  /\ dom.activeElement \in {"chartBtn", "tableBtn"}
  /\ dom.activeElement = "chartBtn" => ~dom.chartBtnDisabled
  /\ Handled(handleArrowKeys(World, key))
  /\ UNCHANGED timing

Elements == {"body", "chartBtn", "tableBtn"}

\* The user (or a focus() call the handlers scheduled) moves the focus; a
\* disabled button takes none.
FocusMoves(element) ==
  /\ dom.ready
  /\ element # dom.activeElement
  /\ element = "chartBtn" => ~dom.chartBtnDisabled
  /\ dom' = [dom EXCEPT !.activeElement = element]
  /\ UNCHANGED <<engine, other, state, calls, rendered, chart, timing>>

ResizeDelay == 250

TickMs == 125

MaxTimers == 3

Widths == {NarrowWidth, NarrowWidth + 1}

\* clearTimeout that cancels nothing.
ClearNothing(pending, id) == pending

\* clearTimeout(id)
ClearTimeout(pending, id) == {t \in pending : t.id # id}

\* The id setTimeout returns: one no pending timer has and the listener does
\* not hold.
FreshIds(pending, held) == {i \in 1..MaxTimers : i # held /\ \A t \in pending : t.id # i}

\* The resize listener: clearTimeout(resizeTimeout); resizeTimeout =
\* setTimeout(..., 250), the window now being innerWidth wide.
Resize(innerWidth) ==
  /\ dom.ready
  /\ chart.renders < MaxRenders
  /\ FreshIds(ClearTimeout(timers, resizeTimeout), resizeTimeout) # {}
  /\ \E id \in {CHOOSE i \in FreshIds(ClearTimeout(timers, resizeTimeout), resizeTimeout) : TRUE} :
        /\ timers' = ClearTimeout(timers, resizeTimeout) \cup {[id |-> id, remaining |-> ResizeDelay]}
        /\ resizeTimeout' = id
  /\ dom' = [dom EXCEPT !.innerWidth = innerWidth]
  /\ sinceResize' = 0
  /\ runs' = 0
  /\ calls' = << >>
  /\ UNCHANGED <<engine, other, state, rendered, chart>>

Least(a, b) == IF a < b THEN a ELSE b

\* TickMs milliseconds pass.
Tick ==
  /\ \/ \E t \in timers : t.remaining > 0
     \/ sinceResize >= 0 /\ sinceResize < ResizeDelay
  /\ timers' = {[t EXCEPT !.remaining = t.remaining - Least(t.remaining, TickMs)] : t \in timers}
  /\ sinceResize' = IF sinceResize < 0 THEN sinceResize ELSE Least(sinceResize + TickMs, ResizeDelay)
  /\ UNCHANGED <<engine, other, state, calls, rendered, chart, dom, resizeTimeout, runs>>

\* The callback of the resize timer.
ResizeCallback(w) ==
  OnValue(handleResponsiveView(w),
          LAMBDA v : IF v.state.viewMode = "chart" /\ v.state.ytmCalculations # NoResult
                     THEN [v EXCEPT !.chart = renderChart(v.chart, v.state.ytmCalculations.cashFlows)]
                     ELSE v)

\* A timer that is due fires (no earlier than its delay, possibly later).
ResizeTimerFires ==
  /\ \E t \in timers :
        /\ t.remaining = 0
        /\ timers' = timers \ {t}
  /\ Handled(ResizeCallback(World))
  /\ runs' = runs + 1
  /\ UNCHANGED <<resizeTimeout, sinceResize>>

\* The page in use: the price and years fields, the view toggle and the
\* window.
NextUi ==
  \/ InitApp
  \/ \E value \in InputPrices : InputEvent("bondPrice", value)
  \/ \E value \in InputYears : InputEvent("years", value)
  \/ ChartClick
  \/ TableClick
  \/ \E key \in ToggleKeys : ToggleKeyDown(key)
  \/ \E element \in Elements : FocusMoves(element)
  \/ \E innerWidth \in Widths : Resize(innerWidth)
  \/ Tick
  \/ ResizeTimerFires

UiInit == EngineInit /\ \E innerWidth \in Widths : PageInit(innerWidth)

UiSpec == UiInit /\ [][NextUi]_vars

\* The three input fields and the view buttons.
NextInput ==
  \/ InitApp
  \/ \E value \in InputPrices : InputEvent("bondPrice", value)
  \/ \E value \in InputCoupons : InputEvent("couponPayment", value)
  \/ \E value \in InputYears : InputEvent("years", value)
  \/ ChartClick
  \/ TableClick

InputSpec == Init /\ [][NextInput]_vars

\* updateCalculations called in whatever state the inputs have left.
NextUpdate ==
  \/ InitApp
  \/ \E value \in InputPrices : InputEvent("bondPrice", value)
  \/ \E value \in InputCoupons : InputEvent("couponPayment", value)
  \/ \E value \in InputYears : InputEvent("years", value)
  \/ TableClick
  \/ UpdateCalculations

UpdateSpec == Init /\ [][NextUpdate]_vars

\* ------------------------------------------------------------------------
\* The chart module on its own: renderChart called with cash flows of the
\* engine, and the events of the canvas.
\* ------------------------------------------------------------------------
ChartCashFlows == {e[2].cashFlows : e \in EngineResults}

ChartKeys == {"ArrowLeft", "ArrowRight", "ArrowUp", "ArrowDown", "Home", "End", "Enter"}

\* The switch of keydownListener with arrows that wrap around at the ends.
NewIndexWrap(key, index, maxIndex) ==
  IF key \in {"ArrowRight", "ArrowDown"} THEN (index + 1) % (maxIndex + 1)
  ELSE IF key \in {"ArrowLeft", "ArrowUp"} THEN (index + maxIndex) % (maxIndex + 1)
  ELSE IF key = "Home" THEN 0
  ELSE IF key = "End" THEN maxIndex
  ELSE index

\* switch(e.key) of keydownListener: the new focus index.
NewIndex(key, index, maxIndex) ==
  IF key \in {"ArrowRight", "ArrowDown"} THEN Least(index + 1, maxIndex)
  ELSE IF key \in {"ArrowLeft", "ArrowUp"} THEN (IF index - 1 > 0 THEN index - 1 ELSE 0)
  ELSE IF key = "Home" THEN 0
  ELSE IF key = "End" THEN maxIndex
  ELSE index

\* keydownListener(e) of the render that closed over cfs.
keydownListener(ch, cfs, key) ==
  [ch EXCEPT !.isKeyboardMode = TRUE,
             !.currentFocusIndex = NewIndex(key, ch.currentFocusIndex, Len(cfs) - 1)]

\* The keydown listeners of the canvas called in the order they were added,
\* from the i-th on.
RECURSIVE DispatchKeyDown(_, _, _)
DispatchKeyDown(ch, i, key) ==
  IF i > Len(ch.keydown)
  THEN ch
  ELSE DispatchKeyDown(keydownListener(ch, ch.keydown[i].cashFlows, key), i + 1, key)

\* renderChart(cashFlows) called.
RenderChart(cfs) ==
  /\ chart.renders < MaxRenders
  /\ chart' = renderChart(chart, cfs)
  /\ calls' = << >>
  /\ UNCHANGED <<engine, other, state, rendered, dom, timing>>

\* A key goes down on the focused canvas.
CanvasKeyDown(key) ==
  /\ dom.activeElement = "canvas"
  /\ chart' = DispatchKeyDown(chart, 1, key)
  /\ UNCHANGED <<engine, other, state, calls, rendered, dom, timing>>

\* The canvas, focusable once a chart was drawn, takes the focus:
\* focusListener.
CanvasFocus ==
  /\ chart.renders > 0
  /\ dom.activeElement # "canvas"
  /\ dom' = [dom EXCEPT !.activeElement = "canvas"]
  /\ chart' = [chart EXCEPT !.isKeyboardMode = (Len(chart.focus) > 0) \/ chart.isKeyboardMode]
  /\ UNCHANGED <<engine, other, state, calls, rendered, timing>>

\* The canvas loses the focus: blurListener clears the tooltip.
CanvasBlur ==
  /\ dom.activeElement = "canvas"
  /\ dom' = [dom EXCEPT !.activeElement = "body"]
  /\ UNCHANGED <<engine, other, state, calls, rendered, chart, timing>>

\* The mouse moves over the canvas: mouseMoveListener.
CanvasMouseMove ==
  /\ Len(chart.mousemove) > 0
  /\ chart.isKeyboardMode
  /\ chart' = [chart EXCEPT !.isKeyboardMode = FALSE]
  /\ UNCHANGED <<engine, other, state, calls, rendered, dom, timing>>

NextChart ==
  \/ \E cfs \in ChartCashFlows : RenderChart(cfs)
  \/ \E key \in ChartKeys : CanvasKeyDown(key)
  \/ CanvasFocus
  \/ CanvasBlur
  \/ CanvasMouseMove

ChartSpec == Init /\ [][NextChart]_vars

\* ------------------------------------------------------------------------
\* The resize listener over time.  Time passes, and the browser runs the
\* callback of a timer that is due once the event loop is free: both are
\* weakly fair.  Resize events and clicks are the user's and need not come.
\* ------------------------------------------------------------------------
NextResize ==
  \/ InitApp
  \/ \E innerWidth \in Widths : Resize(innerWidth)
  \/ Tick
  \/ ResizeTimerFires
  \/ TableClick

ResizeSpec == UiInit /\ [][NextResize]_vars /\ WF_vars(Tick) /\ WF_vars(ResizeTimerFires)

\* ========================================================================
\* Claims
\* ========================================================================
Returned == pc = "returned"

IntegerPeriods(p) == p.years.n > 0 /\ (p.years.n * p.frequency) % p.years.d = 0

\* presentValue(1) <= bondPrice < presentValue(0): the periodic yield that
\* prices the bond lies in the search range [0, 1].
YieldInRange(cfs, bondPrice) ==
  /\ FracCmpInt(presentValue(cfs, 0), bondPrice) = 1
  /\ FracCmpInt(presentValue(cfs, RateScale), bondPrice) <= 0

\* |q - bondPrice| <= k * tolerance * bondPrice
AbsDiff(a, b) == IF BigCmp(a, b) >= 0 THEN BigSub(a, b) ELSE BigSub(b, a)

PvWithin(q, bondPrice, k) ==
  BigCmp(BigMul(AbsDiff(q.num, BigMul(q.den, BigOf(bondPrice))), BigOf(ToleranceInverse)),
         BigMul(BigMul(q.den, BigOf(bondPrice)), BigOf(k))) <= 0

\* |x/RateScale - num/den| <= 1/10000 for a rate x and small naturals num, den
RateWithin1e4(x, num, den) ==
  BigCmp(BigMul(AbsDiff(BigMul(BigOf(x), BigOf(den)), BigMul(BigOf(RateScale), BigOf(num))),
                BigOf(10000)),
         BigMul(BigOf(RateScale), BigOf(den))) <= 0

\* x/RateScale > num/den
RateAbove(x, num, den) ==
  BigCmp(BigMul(BigOf(x), BigOf(den)), BigMul(BigOf(RateScale), BigOf(num))) = 1

RateBelow(x, num, den) ==
  BigCmp(BigMul(BigOf(x), BigOf(den)), BigMul(BigOf(RateScale), BigOf(num))) = -1

\* The self-test bond of runSelfTests: coupon 6, 5 years, face 100, semiannual.
SelfTestBond(p) ==
  /\ p.couponPayment = 6000
  /\ p.years = [n |-> 5, d |-> 1]
  /\ p.faceValue = 100000
  /\ p.frequency = 2

\* C1 as stated: at every return the present value at yieldPerPeriod is within
\* 1e-7 * bondPrice of bondPrice.
C1_Original ==
  Returned => PvWithin(presentValue(cashFlows, result.yieldPerPeriod), params.bondPrice, 1)

\* C1 (amended): when presentValue(1) <= bondPrice < presentValue(0), the loop
\* exits with presentValue(high) <= bondPrice < presentValue(low) and the present
\* value at yieldPerPeriod is within 1e-7 * (number of cash flows) * bondPrice
\* of bondPrice.
C1_RoundTrip ==
  (Returned /\ YieldInRange(cashFlows, params.bondPrice)) =>
    /\ FracCmpInt(presentValue(cashFlows, high), params.bondPrice) <= 0
    /\ FracCmpInt(presentValue(cashFlows, low), params.bondPrice) = 1
    /\ BigCmp(BigMul(BigOf(high - low), BigOf(ToleranceInverse)), BigOf(RateScale)) <= 0
    /\ PvWithin(presentValue(cashFlows, result.yieldPerPeriod), params.bondPrice,
                Len(cashFlows))

\* A return with the yield in range where the error exceeds 1e-7 * bondPrice.
C1_Witness ==
  /\ Returned
  /\ YieldInRange(cashFlows, params.bondPrice)
  /\ ~PvWithin(presentValue(cashFlows, result.yieldPerPeriod), params.bondPrice, 1)

ParBond(p) == p.bondPrice = p.faceValue

WithPrice(p, price) == [p EXCEPT !.bondPrice = price]

\* C3 as stated: for p1 < p2 <= faceValue, other parameters equal,
\* bondEquivalentYield(p1) > bondEquivalentYield(p2).
C3_Original ==
  (Returned /\ params.bondPrice <= params.faceValue) =>
    \A p1 \in Prices :
      p1 < params.bondPrice =>
        SolveYTM(WithPrice(params, p1)).bondEquivalentYield > result.bondEquivalentYield

\* C3 (amended): for p1 < p2 <= faceValue, other parameters equal,
\* bondEquivalentYield(p1) >= bondEquivalentYield(p2), strictly greater when the
\* search for p2 ends with high < 1 and p1 < presentValue(high); the self-test
\* bond at price 95 yields more than 0.06.
C3_DiscountMonotone ==
  /\ (Returned /\ params.bondPrice <= params.faceValue) =>
       \A p1 \in Prices :
         p1 < params.bondPrice =>
           \A r1 \in {SolveYTM(WithPrice(params, p1))} :
             /\ r1.bondEquivalentYield >= result.bondEquivalentYield
             /\ (high < RateScale /\ FracCmpInt(presentValue(cashFlows, high), p1) = 1) =>
                  r1.bondEquivalentYield > result.bondEquivalentYield
  /\ (Returned /\ SelfTestBond(params) /\ params.bondPrice = 95000) =>
       RateAbove(result.bondEquivalentYield, 6, 100)

\* The self-test bond at par has returned and its yield is strictly below the
\* yield of the same bond bought at 95.
C3_Witness ==
  /\ Returned
  /\ SelfTestBond(params)
  /\ params.bondPrice = 100000
  /\ high < RateScale
  /\ FracCmpInt(presentValue(cashFlows, high), 95000) = 1
  /\ SolveYTM(WithPrice(params, 95000)).bondEquivalentYield > result.bondEquivalentYield

\* C4 as stated: for faceValue <= p1 < p2, other parameters equal,
\* bondEquivalentYield(p2) < bondEquivalentYield(p1).
C4_Original ==
  (Returned /\ params.bondPrice >= params.faceValue) =>
    \A p2 \in Prices :
      p2 > params.bondPrice =>
        SolveYTM(WithPrice(params, p2)).bondEquivalentYield < result.bondEquivalentYield

\* C4 (amended): for faceValue <= p1 < p2, other parameters equal,
\* bondEquivalentYield(p2) <= bondEquivalentYield(p1), strictly smaller when the
\* search for p1 ends with low > 0 and presentValue(low) <= p2; the self-test
\* bond at price 105 yields less than 0.06.
C4_PremiumMonotone ==
  /\ (Returned /\ params.bondPrice >= params.faceValue) =>
       \A p2 \in Prices :
         p2 > params.bondPrice =>
           \A r2 \in {SolveYTM(WithPrice(params, p2))} :
             /\ r2.bondEquivalentYield <= result.bondEquivalentYield
             /\ (low > 0 /\ FracCmpInt(presentValue(cashFlows, low), p2) <= 0) =>
                  r2.bondEquivalentYield < result.bondEquivalentYield
  /\ (Returned /\ SelfTestBond(params) /\ params.bondPrice = 105000) =>
       RateBelow(result.bondEquivalentYield, 6, 100)

\* The self-test bond at par has returned and its yield is strictly above the
\* yield of the same bond bought at 105.
C4_Witness ==
  /\ Returned
  /\ SelfTestBond(params)
  /\ params.bondPrice = 100000
  /\ low > 0
  /\ FracCmpInt(presentValue(cashFlows, low), 105000) <= 0
  /\ SolveYTM(WithPrice(params, 105000)).bondEquivalentYield < result.bondEquivalentYield

\* width / RateScale > tolerance
ExceedsTolerance(width) ==
  BigCmp(BigMul(BigOf(width), BigOf(ToleranceInverse)), BigOf(RateScale)) = 1

InLoop == pc = "bisect"

\* C5: the bisection loop always terminates after at most 200 iterations; an
\* iteration runs only while iterations < 200 and high - low > 1e-7, and at
\* exit iterations = 200 or high - low <= 1e-7.
C5_LoopTerminates ==
  /\ [](iterations <= maxIterations)
  /\ [](Returned => (iterations = maxIterations \/ ~ExceedsTolerance(high - low)))
  /\ [][(InLoop /\ iterations' = iterations + 1) =>
          (iterations < maxIterations /\ ExceedsTolerance(high - low))]_vars
  /\ (InLoop ~> Returned)

\* The loop has run and stopped on the tolerance, one iteration after the
\* bracket was still wider than the tolerance.
C5_Witness ==
  /\ Returned
  /\ iterations > 0
  /\ iterations < maxIterations
  /\ ~ExceedsTolerance(high - low)
  /\ ExceedsTolerance(2 * (high - low))

\* C6: each iteration takes mid = (low + high) / 2 and moves exactly one bound
\* to it, low when presentValue(mid) > bondPrice and high otherwise, and adds
\* one to iterations; 0 <= low < high <= 1 throughout the loop and the returned
\* yieldPerPeriod = (low + high) / 2 lies in [0, 1].
C6_BracketInvariant ==
  /\ []((InLoop \/ Returned) => (0 <= low /\ low < high /\ high <= RateScale))
  /\ [](Returned => /\ 2 * result.yieldPerPeriod = low + high
                    /\ 0 <= result.yieldPerPeriod
                    /\ result.yieldPerPeriod <= RateScale)
  /\ [][(InLoop /\ pc' = "bisect") =>
          \A mid \in {(low + high) \div 2} :
            /\ 2 * mid = low + high
            /\ iterations' = iterations + 1
            /\ IF FracCmpInt(presentValue(cashFlows, mid), params.bondPrice) = 1
               THEN low' = mid /\ high' = high
               ELSE high' = mid /\ low' = low]_vars

\* A return after a search that moved both bounds.
C6_Witness ==
  /\ Returned
  /\ 0 < low
  /\ low < high
  /\ high < RateScale
  /\ 2 * result.yieldPerPeriod = low + high

RECURSIVE Halved(_, _)
Halved(x, k) == IF k = 0 THEN x ELSE Halved(x \div 2, k - 1)

NearRate(x, target) == ~ExceedsTolerance(Abs(x - target))

\* C7: out of range the solver signals nothing and converges to a boundary: if
\* bondPrice >= presentValue(0) every iteration lowers high and yieldPerPeriod
\* ends within 1e-7 of 0; if bondPrice < presentValue(1) every iteration raises
\* low and yieldPerPeriod ends within 1e-7 of 1.
C7_Clamping ==
  /\ (Returned /\ FracCmpInt(presentValue(cashFlows, 0), params.bondPrice) <= 0) =>
       /\ low = 0
       /\ high = Halved(RateScale, iterations)
       /\ NearRate(result.yieldPerPeriod, 0)
  /\ (Returned /\ FracCmpInt(presentValue(cashFlows, RateScale), params.bondPrice) = 1) =>
       /\ high = RateScale
       /\ RateScale - low = Halved(RateScale, iterations)
       /\ NearRate(result.yieldPerPeriod, RateScale)

\* A search that clamped at the upper boundary has returned.
C7_Witness ==
  /\ Returned
  /\ iterations > 0
  /\ FracCmpInt(presentValue(cashFlows, RateScale), params.bondPrice) = 1
  /\ high = RateScale
  /\ NearRate(result.yieldPerPeriod, RateScale)

\* C8: two calls with identical inputs return identical iterations and
\* identical yieldPerPeriod, whatever calls happened in between: what a call
\* returns, first or later, is what calculateYTM computes from its arguments
\* alone.
C8_Deterministic ==
  Returned =>
    \A fresh \in {SolveYTM(params)} :
      /\ result.iterations = fresh.iterations
      /\ result.yieldPerPeriod = fresh.yieldPerPeriod
      /\ ytmData.iterations = fresh.iterations
      /\ ytmData.yieldPerPeriod = fresh.yieldPerPeriod

\* A call made after an earlier call returned has itself returned.
C8_Witness ==
  /\ Returned
  /\ called
  /\ result.iterations > 0
  /\ result.iterations = SolveYTM(params).iterations

\* C9: in every result bondEquivalentYield = yieldPerPeriod * frequency and
\* effectiveAnnualYield = (1 + yieldPerPeriod)^frequency - 1, both from the
\* same yieldPerPeriod = (low + high) / 2.
C9_Annualization ==
  Returned =>
    /\ 2 * result.yieldPerPeriod = low + high
    /\ result.bondEquivalentYield = result.yieldPerPeriod * params.frequency
    /\ BigCmp(BigAdd(result.effectiveAnnualYield, BigPow(BigOf(RateScale), params.frequency)),
              BigPow(BigOf(RateScale + result.yieldPerPeriod), params.frequency)) = 0
    /\ (params.frequency = 1 =>
          BigCmp(result.effectiveAnnualYield, BigOf(result.bondEquivalentYield)) = 0)
    /\ (params.frequency > 1 =>
          BigCmp(result.effectiveAnnualYield,
                 BigMul(BigPow(BigOf(RateScale), params.frequency - 1),
                        BigOf(result.bondEquivalentYield))) = 1)

\* A result with several payments a year, where the two annualizations differ.
C9_Witness ==
  /\ Returned
  /\ params.frequency > 1
  /\ result.yieldPerPeriod > 0
  /\ result.bondEquivalentYield = result.yieldPerPeriod * params.frequency

PeriodsInOrder(cfs, frequency) ==
  \A i \in 1..Len(cfs) :
    /\ cfs[i].period = i - 1
    /\ cfs[i].timeYears.n * frequency = cfs[i].period * cfs[i].timeYears.d

\* C10 as stated: for all valid parameters the schedule has exactly periods + 1
\* records, periods = years * frequency, with period fields 0..periods in order
\* and timeYears = period / frequency.
C10_Original ==
  Returned =>
    /\ Len(result.cashFlows) * result.periods.d = result.periods.n + result.periods.d
    /\ PeriodsInOrder(result.cashFlows, params.frequency)

\* C10 (amended): the schedule has exactly floor(periods) + 1 records, which is
\* periods + 1 when years * frequency is an integer, with period fields
\* 0..floor(periods) in order and timeYears = period / frequency.
C10_ScheduleLength ==
  Returned =>
    /\ Len(result.cashFlows) = (result.periods.n \div result.periods.d) + 1
    /\ (IntegerPeriods(params) =>
          Len(result.cashFlows) * result.periods.d = result.periods.n + result.periods.d)
    /\ PeriodsInOrder(result.cashFlows, params.frequency)

\* A schedule for a fractional number of periods.
C10_Witness ==
  /\ Returned
  /\ ~IntegerPeriods(params)
  /\ Len(result.cashFlows) = (result.periods.n \div result.periods.d) + 1
  /\ Len(result.cashFlows) > 1

RECURSIVE SumPrincipal(_, _, _)
SumPrincipal(cfs, i, acc) ==
  IF i > Len(cfs) THEN acc ELSE SumPrincipal(cfs, i + 1, acc + cfs[i].principalPayment)

PeriodicCoupon(p) == p.couponPayment \div p.frequency

\* C11: entry 0 of the schedule has couponPayment 0 and principalPayment =
\* totalCashFlow = -bondPrice; every interior entry has couponPayment =
\* periodicCoupon, principalPayment 0 and totalCashFlow = periodicCoupon; the
\* last entry has couponPayment = periodicCoupon, principalPayment = faceValue
\* and totalCashFlow = periodicCoupon + faceValue.
C11_BoundaryPlacement ==
  Returned =>
    \A s \in {result.cashFlows} :
      /\ Len(s) >= 2
      /\ s[1].couponPayment = 0
      /\ s[1].principalPayment = 0 - params.bondPrice
      /\ s[1].totalCashFlow = 0 - params.bondPrice
      /\ \A i \in 2..(Len(s) - 1) :
           /\ s[i].couponPayment = PeriodicCoupon(params)
           /\ s[i].principalPayment = 0
           /\ s[i].totalCashFlow = PeriodicCoupon(params)
      /\ s[Len(s)].couponPayment = PeriodicCoupon(params)
      /\ s[Len(s)].principalPayment = params.faceValue
      /\ s[Len(s)].totalCashFlow = PeriodicCoupon(params) + params.faceValue

\* C12: the sum of principalPayment over the whole schedule equals
\* faceValue - bondPrice.
C12_PrincipalConservation ==
  Returned =>
    SumPrincipal(result.cashFlows, 1, 0) = params.faceValue - params.bondPrice

\* C13: the Solver's array has as many entries as the Builder has entries for
\* periods >= 1, the Builder's totalCashFlow at period t equals the Solver's
\* cash flow number t, and faceValue is paid in the same final period in both.
C13_SolverBuilderAgree ==
  Returned =>
    /\ Len(cashFlows) = Len(result.cashFlows) - 1
    /\ \A t \in 1..Len(cashFlows) :
         /\ result.cashFlows[t + 1].period = t
         /\ result.cashFlows[t + 1].totalCashFlow = cashFlows[t]
         /\ (result.cashFlows[t + 1].principalPayment = params.faceValue) <=>
              (cashFlows[t] = PeriodicCoupon(params) + params.faceValue)
    /\ result.cashFlows[Len(result.cashFlows)].principalPayment = params.faceValue
    /\ cashFlows[Len(cashFlows)] = PeriodicCoupon(params) + params.faceValue

Classified == pc = "classified"

\* C14: analyzeBondPricing returns exactly one tag for every input pair: par iff
\* |bondPrice - faceValue| < 0.01, premium iff bondPrice - faceValue >= 0.01,
\* discount iff bondPrice - faceValue <= -0.01 (0.01 is 10 mills).
C14_Classifier ==
  Classified =>
    \A d \in {params.bondPrice - params.faceValue}, tag \in {result.pricingAnalysis.type} :
      /\ tag \in {"par", "premium", "discount"}
      /\ (tag = "par") <=> (d > -10 /\ d < 10)
      /\ (tag = "premium") <=> (d >= 10)
      /\ (tag = "discount") <=> (d <= -10)
      /\ (d \in {-9, 9} => tag = "par")
      /\ (d = 11 => tag = "premium")
      /\ (d = -11 => tag = "discount")

\* The classifier has returned premium for a price exactly 0.01 above face.
C14_Witness ==
  /\ Classified
  /\ params.bondPrice - params.faceValue = 10
  /\ result.pricingAnalysis.type = "premium"

\* C15: calculateBondYTMMetrics(params) returns yieldPerPeriod,
\* bondEquivalentYield, effectiveAnnualYield, periods, couponPayment and
\* iterations exactly as calculateYTM returns them for the same params, a
\* cashFlows field equal to generateCashFlows' schedule of records, and
\* pricingAnalysis equal to analyzeBondPricing(bondPrice, faceValue).
C15_AggregatorComposition ==
  Returned =>
    /\ ytmData = SolveYTM(params)
    /\ result.yieldPerPeriod = ytmData.yieldPerPeriod
    /\ result.bondEquivalentYield = ytmData.bondEquivalentYield
    /\ result.effectiveAnnualYield = ytmData.effectiveAnnualYield
    /\ result.periods = ytmData.periods
    /\ result.couponPayment = ytmData.couponPayment
    /\ result.iterations = ytmData.iterations
    /\ result.cashFlows =
         generateCashFlows([bondPrice |-> params.bondPrice, faceValue |-> params.faceValue,
                            frequency |-> params.frequency, years |-> params.years,
                            couponPayment |-> ytmData.couponPayment,
                            ytmPerPeriod |-> ytmData.yieldPerPeriod])
    /\ \A i \in 1..Len(result.cashFlows) :
         DOMAIN result.cashFlows[i] =
           {"period", "timeYears", "couponPayment", "principalPayment", "totalCashFlow"}
    /\ result.pricingAnalysis = analyzeBondPricing(params.bondPrice, params.faceValue)
    /\ result.pricingAnalysis.type =
         IF params.bondPrice = params.faceValue THEN "par"
         ELSE IF params.bondPrice > params.faceValue THEN "premium" ELSE "discount"

\* The aggregator has returned for a premium bond.
C15_Witness ==
  /\ Returned
  /\ params.bondPrice > params.faceValue
  /\ result.pricingAnalysis.type = "premium"
  /\ result.iterations = ytmData.iterations
  /\ Len(result.cashFlows) > 1

\* C16: in the aggregator's result every schedule entry with period >= 1 has
\* couponPayment equal to result.couponPayment, and that value equals the
\* input annual couponPayment divided by frequency.
C16_PeriodicCoupon ==
  Returned =>
    /\ \A i \in 1..Len(result.cashFlows) :
         result.cashFlows[i].period >= 1 =>
           result.cashFlows[i].couponPayment = result.couponPayment
    /\ result.couponPayment * params.frequency = params.couponPayment

\* A result with a positive coupon paid several times a year.
C16_Witness ==
  /\ Returned
  /\ params.frequency > 1
  /\ params.couponPayment > 0
  /\ Len(result.cashFlows) > 1
  /\ result.cashFlows[2].couponPayment * params.frequency = params.couponPayment

Threw == pc = "threw"

PricingTags == {"par", "premium", "discount"}

\* C17: for every valid BondParameters calculateYTM, generateCashFlows,
\* analyzeBondPricing and calculateBondYTMMetrics each return a result and
\* never throw: no call with valid parameters ends in a throw, every such call
\* that enters the solver returns, and what is returned is complete.
C17_NoFailure ==
  /\ [](Threw => params \notin BondParameters)
  /\ []((Returned /\ params \in BondParameters) =>
          /\ ytmData.iterations = iterations
          /\ Len(ytmData.cashFlows) >= 1
          /\ Len(result.cashFlows) >= 1
          /\ result.pricingAnalysis.type \in PricingTags)
  /\ [](Classified => result.pricingAnalysis.type \in PricingTags)
  /\ ((InLoop /\ params \in BondParameters) ~> Returned)

\* A call for a zero-coupon bond has returned a complete result.
C17_Witness ==
  /\ Returned
  /\ params \in BondParameters
  /\ params.couponPayment = 0
  /\ Len(result.cashFlows) >= 1
  /\ result.pricingAnalysis.type \in PricingTags

C19_Stateless ==
  /\ [](Returned => /\ ytmData = SolveYTM(params)
                    /\ result = Metrics(params, SolveYTM(params)))
  /\ [](other.pc = "returned" => other.ytmData = SolveYTM(other.params))
  /\ [][(other' # other) => (engine' = engine)]_vars
  /\ [][(engine' # engine) => (other' = other)]_vars
  /\ [][(InLoop /\ pc' # "bisect") => (pc' = "returned" /\ params' = params)]_vars
  /\ [][(InLoop /\ pc' = "bisect") => (params' = params /\ cashFlows' = cashFlows)]_vars
  /\ [][(other.pc = "bisect") => (other.params' = other.params)]_vars

\* Both invocations have returned after running at the same time with
\* different arguments.
C19_Witness ==
  /\ Returned
  /\ other.pc = "returned"
  /\ other.params # params
  /\ ytmData.iterations = 24
  /\ other.ytmData.iterations = 24

\* C20: after k iterations high - low = 2^-k exactly, for every input, so the
\* loop always exits through the tolerance test after exactly 24 iterations,
\* the 200-iteration cap is never reached, and the returned iterations field
\* is 24 for every call.
C20_WidthHalves ==
  /\ []((InLoop \/ Returned) =>
          /\ iterations <= 24
          /\ (high - low) * 2^iterations = RateScale)
  /\ [](Returned => /\ iterations = 24
                    /\ ytmData.iterations = 24
                    /\ result.iterations = 24
                    /\ ~ExceedsTolerance(high - low))
  /\ [][(InLoop /\ pc' = "returned") =>
          (iterations < maxIterations /\ ~ExceedsTolerance(high - low))]_vars

\* A call has returned after 24 halvings of the bracket.
C20_Witness ==
  /\ Returned
  /\ result.iterations = 24
  /\ (high - low) * 2^24 = RateScale
  /\ ExceedsTolerance(2 * (high - low))

\* C21: if presentValue(0) > bondPrice >= presentValue(1) when the loop starts,
\* then after every iteration presentValue(low) > bondPrice >=
\* presentValue(high), and the returned yieldPerPeriod is the midpoint of a
\* bracket no wider than 1e-7, so it differs from the true periodic yield by at
\* most (high - low) / 2 <= 5e-8.
C21_RootBracketing ==
  [](((InLoop \/ Returned) /\ YieldInRange(cashFlows, params.bondPrice)) =>
       /\ FracCmpInt(presentValue(cashFlows, low), params.bondPrice) = 1
       /\ FracCmpInt(presentValue(cashFlows, high), params.bondPrice) <= 0
       /\ low < high
       /\ (Returned =>
             /\ 2 * result.yieldPerPeriod = low + high
             /\ ~ExceedsTolerance(high - low)))

\* Partway through a search with the yield in range, both bounds moved.
C21_Witness ==
  /\ InLoop
  /\ iterations > 2
  /\ 0 < low
  /\ high < RateScale
  /\ YieldInRange(cashFlows, params.bondPrice)
  /\ FracCmpInt(presentValue(cashFlows, low), params.bondPrice) = 1

\* C24: setState(updates) first merges every key of updates into the shared
\* state, leaving all other keys unchanged, and then calls each subscriber
\* registered so far exactly once, in subscription order, with the
\* already-updated state (handleStateChange draws from it); subscribe only
\* appends and neither removes nor calls a subscriber.
C24_SetStateThenNotify ==
  [][/\ \A updates \in StateUpdates :
          SetState(updates) =>
            /\ \A k \in DOMAIN updates : state'[k] = updates[k]
            /\ \A k \in DOMAIN state \ DOMAIN updates : state'[k] = state[k]
            /\ Len(calls') = Len(state.listeners)
            /\ \A i \in 1..Len(state.listeners) :
                  /\ calls'[i].fn = state.listeners[i]
                  /\ calls'[i].state = state'
            /\ (\E i \in 1..Len(state.listeners) : state.listeners[i] = "handleStateChange")
                 /\ state'.ytmCalculations # NoResult
                 => rendered'.results = DisplayOf(state')
     /\ \A fn \in Subscribers :
          Subscribe(fn) =>
            /\ state'.listeners = Append(state.listeners, fn)
            /\ \A k \in DOMAIN state \ {"listeners"} : state'[k] = state[k]
            /\ calls' = << >>
            /\ rendered' = rendered
            /\ chart' = chart]_vars

\* Two different subscribers were called in the order they subscribed, both
\* with a state that already holds the new price.
C24_Witness ==
  /\ Len(calls) = 2
  /\ calls[1].fn = "observer"
  /\ calls[2].fn = "handleStateChange"
  /\ state.listeners = <<"observer", "handleStateChange">>
  /\ state.bondPrice = 105000
  /\ calls[1].state.bondPrice = 105000
  /\ calls[2].state = state

C23_NoStaleResult ==
  hasErrors(state.errors) =>
    /\ state.ytmCalculations = NoResult
    /\ ~(/\ rendered.results.calculations # NoResult
         /\ validateField("bondPrice", rendered.results.params.bondPrice))

\* The notifications among the calls c that carried calculations, and those
\* of them made in chart view.
Drawn(c) ==
  SelectSeq(c, LAMBDA n : n.fn = "handleStateChange" /\ n.state.ytmCalculations # NoResult)

DrawnAsChart(c) == SelectSeq(Drawn(c), LAMBDA n : n.state.viewMode = "chart")

\* C25: on every state notification with non-null ytmCalculations the table
\* is drawn again from them whatever the viewMode, and the chart is drawn
\* again only when viewMode is 'chart' (besides the redraw of the resize
\* timer); so after any sequence of recalculations, view switches and
\* resizes, whenever viewMode is 'chart' and ytmCalculations is non-null the
\* chart last drawn was built from the current ytmCalculations.cashFlows.
C25_DisplayFreshness ==
  /\ [](state.viewMode = "chart" /\ state.ytmCalculations # NoResult =>
          /\ chart.renders > 0
          /\ chart.chartInstance = state.ytmCalculations.cashFlows)
  /\ [][<<state, rendered, chart>>' # <<state, rendered, chart>> =>
          /\ rendered'.table =
               IF Drawn(calls') = << >>
               THEN rendered.table
               ELSE Drawn(calls')[Len(Drawn(calls'))].state.ytmCalculations.cashFlows
          /\ chart'.renders - chart.renders =
               Len(DrawnAsChart(calls'))
                 + (IF /\ runs' # runs
                       /\ state'.viewMode = "chart"
                       /\ state'.ytmCalculations # NoResult
                    THEN 1 ELSE 0)]_vars

\* Back in chart view after a recalculation made in table view: the chart was
\* drawn by the notification of the switch, from the three cash flows of the
\* one-year bond that the table shows as well.
C25_Witness ==
  /\ state.viewMode = "chart"
  /\ state.years = [n |-> 1, d |-> 1]
  /\ state.ytmCalculations # NoResult
  /\ Len(calls) = 1
  /\ calls[1].fn = "handleStateChange"
  /\ chart.renders = 2
  /\ Len(chart.chartInstance) = 3
  /\ rendered.table = chart.chartInstance

\* C26: from the moment handleResponsiveView observes a viewport width <= 480
\* until it observes a width > 480 (body carries 'force-table' and the chart
\* button is disabled), state.viewMode is 'table' after every UI event: a
\* click on the chart button is intercepted and switches to table, ArrowLeft
\* on the toggle does not switch to chart, and the observation of a wider
\* viewport enables the chart button again without changing viewMode.
C26_ForcedTable ==
  /\ [](dom.forceTable => state.viewMode = "table" /\ dom.chartBtnDisabled)
  /\ [][/\ dom.forceTable /\ ChartClick =>
             /\ state'.viewMode = "table"
             /\ calls' = <<[fn |-> "handleStateChange", state |-> state']>>
        /\ dom.forceTable /\ ToggleKeyDown("ArrowLeft") =>
             /\ state' = state
             /\ dom' = dom
        /\ dom.forceTable /\ ~dom'.forceTable =>
             /\ dom.innerWidth > NarrowWidth
             /\ state'.viewMode = state.viewMode
             /\ ~dom'.chartBtnDisabled]_vars

\* Narrow screen observed by the resize timer while a table drawn from a
\* result is up, the table button focused, and a view switch requested since.
C26_Witness ==
  /\ dom.forceTable
  /\ dom.innerWidth = NarrowWidth
  /\ dom.activeElement = "tableBtn"
  /\ runs = 1
  /\ state.viewMode = "table"
  /\ state.ytmCalculations # NoResult
  /\ calls = <<[fn |-> "handleStateChange", state |-> state]>>

\* C27: after any sequence of renderChart calls and key events, 0 <=
\* currentFocusIndex <= cashFlows.length - 1 of the chart currently shown;
\* ArrowRight/ArrowDown and ArrowLeft/ArrowUp move by one and stop at the
\* ends without wrapping, Home sets 0, End sets the last index, any other key
\* leaves it unchanged, and renderChart resets it to 0.
C27_FocusIndexInRange ==
  /\ [](chart.renders > 0 =>
          /\ 0 <= chart.currentFocusIndex
          /\ chart.currentFocusIndex <= Len(chart.chartInstance) - 1)
  /\ [][/\ chart'.renders # chart.renders => chart'.currentFocusIndex = 0
        /\ \A key \in ChartKeys :
             CanvasKeyDown(key) =>
               chart'.currentFocusIndex =
                 CASE key \in {"ArrowRight", "ArrowDown"} ->
                        IF chart.currentFocusIndex < Len(chart.chartInstance) - 1
                        THEN chart.currentFocusIndex + 1
                        ELSE chart.currentFocusIndex
                   [] key \in {"ArrowLeft", "ArrowUp"} ->
                        IF chart.currentFocusIndex > 0
                        THEN chart.currentFocusIndex - 1
                        ELSE 0
                   [] key = "Home" -> 0
                   [] key = "End" -> Len(chart.chartInstance) - 1
                   [] OTHER -> chart.currentFocusIndex]_vars

\* The focus on the last bar of a three-bar chart that replaced an earlier
\* chart.
C27_Witness ==
  /\ chart.renders > 1
  /\ Len(chart.chartInstance) = 3
  /\ chart.currentFocusIndex = 2
  /\ chart.isKeyboardMode
  /\ dom.activeElement = "canvas"

\* C28: after any number of renderChart calls on the same canvas, exactly one
\* keydown, one focus, one blur and one mousemove listener installed by
\* setupKeyboardNavigation is registered, each bound to the cash flows of the
\* latest render.
C28_OneListenerEach ==
  chart.renders > 0 =>
    /\ chart.keydown = <<[render |-> chart.renders, cashFlows |-> chart.chartInstance]>>
    /\ chart.focus = <<chart.renders>>
    /\ chart.blur = <<chart.renders>>
    /\ chart.mousemove = <<chart.renders>>

\* C29: at most one resize timer is pending at any time; each resize event
\* cancels the pending timer and starts a new one of 250 ms, so the timer's
\* callback (handleResponsiveView and, in chart view with calculations, one
\* chart redraw) runs once per burst of resize events and only when 250 ms
\* have passed since the last of them, and after the last event of a burst
\* it eventually runs.
C29_ResizeDebounce ==
  /\ [](Cardinality(timers) <= 1)
  /\ [][(\E innerWidth \in Widths : Resize(innerWidth)) =>
          timers' = {[id |-> resizeTimeout', remaining |-> ResizeDelay]}]_vars
  /\ [][runs' # runs /\ runs' > 0 =>
          /\ runs' = 1
          /\ sinceResize >= ResizeDelay
          /\ timers' = {}
          /\ chart'.renders - chart.renders =
               IF state'.viewMode = "chart" /\ state'.ytmCalculations # NoResult
               THEN 1 ELSE 0]_vars
  /\ (sinceResize > 0 /\ runs = 0) ~> (runs = 1 \/ sinceResize = 0)

\* The callback has run once, 250 ms after the second of two resize events,
\* and no timer is left.
C29_Witness ==
  /\ runs = 1
  /\ timers = {}
  /\ resizeTimeout = 2
  /\ sinceResize = ResizeDelay

====
